---- MODULE Spec2Model ----
(***************************************************************************)
(* Model of the movie catalog: the field parsers (app/utils/parse_helpers),*)
(* the row transformers (app/pipelines), and Neo4jMoviesCatalog            *)
(* (app/db/movies_catalog.py): the chunked ingestion loops, the Cypher     *)
(* merge statements of add_movies / add_credits, is_empty, and the         *)
(* link / unlink edits.  The graph store is modelled by the semantics of   *)
(* the Cypher clauses the catalog sends (UNWIND, MATCH, MERGE, ON CREATE   *)
(* SET, SET, FOREACH, DELETE, count), over bags of nodes and edges, so     *)
(* that a duplicate node or edge is a representable state.  Four          *)
(* specifications share the state: Spec (the catalog operations on the     *)
(* graph), SpecIngest (the chunked ingestion runs), SpecParse (the parsers *)
(* applied to one cell) and SpecConn (the life of the driver and its       *)
(* sessions).                                                              *)
(***************************************************************************)
EXTENDS Integers, Sequences, FiniteSets, Bags, TLC

VARIABLES db, pre, call, run, ncalls, conn

vars == <<db, pre, call, run, ncalls, conn>>

(***************************************************************************)
(* Bounds of the model.                                                    *)
(***************************************************************************)
MaxMovieId == 2
MaxBatch == 2
MaxCalls == 3
MaxRows == 5
MaxChunk == 3
MaxLimit == 6
MaxRuns == 2

(* Python None / Cypher null / an absent property. *)
NULL == "NULL"

MovieIds == 1..MaxMovieId

Range(s) == {s[i] : i \in DOMAIN s}

Min(a, b) == IF a <= b THEN a ELSE b

(* F applied to the value of x: the statement's clauses run one after the  *)
(* other, each on the graph the one before it left.                        *)
Then(x, F(_)) == CHOOSE r \in {F(y) : y \in {x}} : TRUE

(***************************************************************************)
(* Raw CSV cells.  A cell is a string or the NaN marker pandas gives an    *)
(* empty field.                                                            *)
(***************************************************************************)
Str(t) == [isstr |-> TRUE, text |-> t]

NaN == [isstr |-> FALSE, text |-> "nan"]

(* A cell that is None, and one that is the number 5; text is their str(). *)
PyNone == [isstr |-> FALSE, text |-> "None"]

Num == [isstr |-> FALSE, text |-> "5"]

(* str.strip() on the cell texts of the model: the blank texts strip to "". *)
Strip(t) == IF t \in {"", "   "} THEN "" ELSE t

(* A decoded structured value: None, or a list of entries. *)
None == [shape |-> "null", items |-> <<>>]

List(s) == [shape |-> "list", items |-> s]

Returned(v) == [exc |-> NULL, value |-> v]

Raised(e) == [exc |-> e, value |-> None]

(***************************************************************************)
(* The cell texts of the movies file, per payload variant v.               *)
(***************************************************************************)
GenresText == << "[{'name': 'Action'}, {'name': 'Drama'}, {'name': 'Action'}]",
                 "[{'name': 'Drama'}]",
                 "[{'id': 28}]" >>

KeywordsText == << "[{'name': 'space'}]", "   " >>

CompaniesText == << "[{'name': 'Fox'}]",
                    "[{'name': 'Fox'}, {'name': 'Paramount'}]" >>

CountriesText == << "[{'iso_3166_1': 'US', 'name': 'United States of America'}]",
                    "[{'iso_3166_1': 'US', 'name': 'USA'}, {'iso_3166_1': 'GB', 'name': 'United Kingdom'}]" >>

LanguagesText == << "[{'iso_639_1': 'en', 'name': 'English'}, {'iso_639_1': 'en', 'name': 'English'}]",
                    "{broken" >>

DateText == << "2009-12-10", "not a date" >>

(* A literal the evaluator cannot build: a dict whose key is a list. *)
UnhashableText == "{[1]: 2}"

(* Stands for a text of 100000 opening brackets. *)
DeepText == "[[[[[[[[ ..."

ListText == << "en, fr,, de ", " , ", "en" >>

Titles == << "Avatar", "Titanic" >>

(* Payload 3 is payload 1 with a genres cell whose entry has no name. *)
Variants == {1, 2, 3}

(* ast.literal_eval on the cell texts of the model. *)
literal_eval(t) ==
    CASE t = GenresText[1] ->
           Returned(List(<< [name |-> "Action"], [name |-> "Drama"], [name |-> "Action"] >>))
      [] t = GenresText[2] -> Returned(List(<< [name |-> "Drama"] >>))
      [] t = GenresText[3] -> Returned(List(<< [id |-> 28] >>))
      [] t = KeywordsText[1] -> Returned(List(<< [name |-> "space"] >>))
      [] t = CompaniesText[1] -> Returned(List(<< [name |-> "Fox"] >>))
      [] t = CompaniesText[2] ->
           Returned(List(<< [name |-> "Fox"], [name |-> "Paramount"] >>))
      [] t = CountriesText[1] ->
           Returned(List(<< [iso_3166_1 |-> "US", name |-> "United States of America"] >>))
      [] t = CountriesText[2] ->
           Returned(List(<< [iso_3166_1 |-> "US", name |-> "USA"],
                            [iso_3166_1 |-> "GB", name |-> "United Kingdom"] >>))
      [] t = LanguagesText[1] ->
           Returned(List(<< [iso_639_1 |-> "en", name |-> "English"],
                            [iso_639_1 |-> "en", name |-> "English"] >>))
      [] t = UnhashableText -> Raised("TypeError")
      [] t \in Range(Titles) -> Raised("ValueError")
      [] OTHER -> Raised("SyntaxError")

(* dateutil parser.parse(text, fuzzy=True) on the date texts of the model. *)
dateutil_parse(t) ==
    CASE t = DateText[1] -> [exc |-> NULL, value |-> "2009-12-10T00:00:00"]
      [] t = Num.text -> [exc |-> NULL, value |-> "day 5 of the current month"]
      [] OTHER -> [exc |-> "ValueError", value |-> NULL]

(* The parsers give the value they return, or the exception that leaves    *)
(* them: one the evaluator raised and their except clause does not name.   *)
parse_dict(value) ==
    IF ~value.isstr \/ Strip(value.text) = ""
    THEN Returned(None)
    ELSE LET r == literal_eval(value.text)
         IN IF r.exc \in {"ValueError", "SyntaxError"} THEN Returned(None) ELSE r

(* [item.strip() for item in value.split(",") if item.strip()] *)
split_strip(t) ==
    CASE t = ListText[1] -> << "en", "fr", "de" >>
      [] t = ListText[2] -> << >>
      [] OTHER -> << t >>

parse_list(value) ==
    IF ~value.isstr \/ Strip(value.text) = ""
    THEN Returned(None)
    ELSE Returned(List(split_strip(value.text)))

(* pd.isna on a cell *)
isna(value) == value \in {NaN, PyNone}

parse_date(value) ==
    IF isna(value)
    THEN [exc |-> NULL, value |-> NULL]
    ELSE LET strvalue == Strip(value.text)
         IN IF strvalue = ""
            THEN [exc |-> NULL, value |-> NULL]
            ELSE LET r == dateutil_parse(strvalue)
                 IN IF r.exc \in {"ValueError", "OverflowError", "TypeError"}
                    THEN [exc |-> NULL, value |-> NULL]
                    ELSE r

(***************************************************************************)
(* The cell texts of the credits file, per design d, and json.loads on     *)
(* them.  Persons 1 and 3 share the name Ann.                              *)
(***************************************************************************)
PersonName(p) == IF p = 2 THEN "Bob" ELSE "Ann"

C(p, ch) == [id |-> p, name |-> PersonName(p), gender |-> p % 3, character |-> ch]

W(p, job, dept, cid) ==
    [id |-> p, name |-> PersonName(p), gender |-> p % 3,
     job |-> job, department |-> dept, credit_id |-> cid]

CastText ==
    << "[{\"id\": 1, \"name\": \"Ann\", \"gender\": 1, \"character\": \"Hero\"}, {\"id\": 2, \"name\": \"Bob\", \"gender\": 2, \"character\": \"Sidekick\"}]",
       "[{\"id\": 1, \"name\": \"Ann\", \"gender\": 1, \"character\": \"Villain\"}, {\"id\": 1, \"name\": \"Ann\", \"gender\": 1, \"character\": \"Twin\"}]",
       "" >>

CrewText ==
    << "[{\"id\": 3, \"name\": \"Ann\", \"gender\": 0, \"job\": \"Director\", \"department\": \"Directing\", \"credit_id\": \"c1\"}, {\"id\": 2, \"name\": \"Bob\", \"gender\": 2, \"job\": \"Editor\", \"department\": \"Editing\", \"credit_id\": \"c2\"}]",
       "[{\"id\": 3, \"name\": \"Ann\", \"gender\": 0, \"job\": \"DIRECTOR\", \"department\": \"Directing\", \"credit_id\": \"c3\"}, {\"id\": 1, \"name\": \"Ann\", \"gender\": 1, \"job\": null, \"department\": \"Crew\", \"credit_id\": \"c4\"}]",
       "[{\"id\": 2, \"name\": \"Bob\", \"gender\": 2, \"job\": \"director\", \"department\": \"Directing\", \"credit_id\": \"c5\"}, {\"id\": 2, \"name\": \"Bob\", \"gender\": 2, \"job\": \"Producer\", \"department\": \"Production\", \"credit_id\": \"c6\"}]" >>

Designs == {1, 2, 3}

json_loads(t) ==
    CASE t = CastText[1] -> Returned(List(<< C(1, "Hero"), C(2, "Sidekick") >>))
      [] t = CastText[2] -> Returned(List(<< C(1, "Villain"), C(1, "Twin") >>))
      [] t = CrewText[1] ->
           Returned(List(<< W(3, "Director", "Directing", "c1"),
                            W(2, "Editor", "Editing", "c2") >>))
      [] t = CrewText[2] ->
           Returned(List(<< W(3, "DIRECTOR", "Directing", "c3"),
                            W(1, NULL, "Crew", "c4") >>))
      [] t = CrewText[3] ->
           Returned(List(<< W(2, "director", "Directing", "c5"),
                            W(2, "Producer", "Production", "c6") >>))
      [] t = DeepText -> Raised("RecursionError")
      [] OTHER -> Raised("JSONDecodeError")

parse_json(value) ==
    IF ~value.isstr \/ Strip(value.text) = ""
    THEN Returned(None)
    ELSE LET r == json_loads(value.text)
         IN IF r.exc \in {"TypeError", "ValueError", "JSONDecodeError"}
            THEN Returned(None)
            ELSE r

(***************************************************************************)
(* Raw rows and the row transformers.  Series.apply puts the value each    *)
(* parser returns in the cell; no cell of the model's files makes a parser *)
(* raise.                                                                  *)
(***************************************************************************)
RawMovieRow(id, v) ==
    LET u == IF v = 3 THEN 1 ELSE v
    IN [id |-> id,
        title |-> Titles[u],
        original_title |-> IF u = 1 THEN "Avatar (orig)" ELSE "Titanic (orig)",
        release_date |-> Str(DateText[u]),
        status |-> IF u = 1 THEN "Released" ELSE "Rumored",
        runtime |-> 160 + u,
        budget |-> 200 + u,
        revenue |-> 2000 + u,
        homepage |-> IF u = 1 THEN "http://avatar" ELSE NULL,
        tagline |-> IF u = 1 THEN "Enter the world" ELSE "Nothing on earth",
        overview |-> IF u = 1 THEN "A marine on Pandora" ELSE "A ship sinks",
        popularity |-> 150 + u,
        vote_average |-> 7 + u,
        vote_count |-> 11000 + u,
        genres |-> Str(GenresText[v]),
        keywords |-> Str(KeywordsText[u]),
        production_companies |-> Str(CompaniesText[u]),
        production_countries |-> Str(CountriesText[u]),
        spoken_languages |-> Str(LanguagesText[u])]

RawCreditRow(m, d) ==
    [movie_id |-> m,
     cast |-> IF d = 3 THEN NaN ELSE Str(CastText[d]),
     crew |-> Str(CrewText[d])]

transform_dict_columns(chunk) ==
    [i \in DOMAIN chunk |->
        [chunk[i] EXCEPT !.genres = parse_dict(@).value,
                         !.keywords = parse_dict(@).value,
                         !.production_companies = parse_dict(@).value,
                         !.production_countries = parse_dict(@).value,
                         !.spoken_languages = parse_dict(@).value]]

transform_release_date(chunk) ==
    [i \in DOMAIN chunk |-> [chunk[i] EXCEPT !.release_date = parse_date(@).value]]

transform_movies(chunk) == transform_release_date(transform_dict_columns(chunk))

transform_json_columns(chunk) ==
    [i \in DOMAIN chunk |->
        [chunk[i] EXCEPT !.cast = parse_json(@).value, !.crew = parse_json(@).value]]

transform_credits(chunk) == transform_json_columns(chunk)

(***************************************************************************)
(* The property graph.  Nodes and edges are kept in bags: CREATE adds a    *)
(* copy, MERGE adds one only when the pattern matches nothing.  An edge    *)
(* names its endpoints by their identity keys.                             *)
(***************************************************************************)
EmptyDb ==
    [movies |-> EmptyBag, persons |-> EmptyBag, entities |-> EmptyBag,
     rels |-> EmptyBag, edges |-> EmptyBag]

(* The sub-bag of B on the elements S, and its number of copies. *)
KeepBag(B, S) == [e \in S |-> B[e]]

BagCount(B, S) == BagCardinality(KeepBag(B, S))

AddCopies(B, e, n) == IF n = 0 THEN B ELSE B (+) [x \in {e} |-> n]

NodeCount(g) ==
    BagCardinality(g.movies) + BagCardinality(g.persons) + BagCardinality(g.entities)

(* Cypher's three-valued comparison: null compared with anything is null. *)
Eq3(a, b) == IF a = NULL \/ b = NULL THEN NULL ELSE IF a = b THEN "true" ELSE "false"

Neq3(a, b) == IF a = NULL \/ b = NULL THEN NULL ELSE IF a # b THEN "true" ELSE "false"

(* CASE WHEN c THEN [1] ELSE [] END: the body runs only when c is true. *)
CaseWhen(c) == c = "true"

(* Cypher toLower on the job strings of the model; toLower(null) is null. *)
toLower(s) ==
    CASE s = NULL -> NULL
      [] s \in {"Director", "DIRECTOR", "director"} -> "director"
      [] s = "Editor" -> "editor"
      [] s = "Producer" -> "producer"
      [] OTHER -> s

(* ---- add_movies ------------------------------------------------------- *)
MovieNode(row) ==
    [movie_id |-> row.id,
     title |-> row.title,
     original_title |-> row.original_title,
     release_date |-> row.release_date,
     status |-> row.status,
     runtime |-> row.runtime,
     budget |-> row.budget,
     revenue |-> row.revenue,
     homepage |-> row.homepage,
     tagline |-> row.tagline,
     overview |-> row.overview,
     popularity |-> row.popularity,
     vote_average |-> row.vote_average,
     vote_count |-> row.vote_count]

MovieMatches(g, id) == {m \in DOMAIN g.movies : m.movie_id = id}

(* As merge_movie with SET in place of ON CREATE SET: a match is overwritten. *)
merge_movie_overwriting(g, row) ==
    [g EXCEPT !.movies =
         AddCopies(KeepBag(@, DOMAIN @ \ MovieMatches(g, row.id)), MovieNode(row),
                   IF MovieMatches(g, row.id) = {}
                   THEN 1
                   ELSE BagCount(@, MovieMatches(g, row.id)))]

(* MERGE (m:Movie {movie_id: row.id}) ON CREATE SET ... *)
merge_movie(g, row) ==
    IF MovieMatches(g, row.id) # {}
    THEN g
    ELSE [g EXCEPT !.movies = @ (+) SetToBag({MovieNode(row)})]

EntityNode(label, iso, name) == [label |-> label, iso_code |-> iso, name |-> name]

(* MERGE (x:Label {key...}) MERGE (m)-[:TYPE]->(x) *)
merge_entity(g, m, label, type, iso, name) ==
    LET node == EntityNode(label, iso, name)
        g1 == IF node \in DOMAIN g.entities
              THEN g
              ELSE [g EXCEPT !.entities = @ (+) SetToBag({node})]
        rel == [type |-> type, movie_id |-> m, target |-> node]
    IN IF rel \in DOMAIN g1.rels
       THEN g1
       ELSE [g1 EXCEPT !.rels = @ (+) SetToBag({rel})]

(* x.key in Cypher: a map without the key gives null. *)
Prop(it, key) == IF key \in DOMAIN it THEN it[key] ELSE NULL

merge_item(g, m, col, it) ==
    CASE col = "genres" -> merge_entity(g, m, "Genre", "HAS_GENRE", NULL, Prop(it, "name"))
      [] col = "keywords" ->
           merge_entity(g, m, "Keyword", "HAS_KEYWORD", NULL, Prop(it, "name"))
      [] col = "production_companies" ->
           merge_entity(g, m, "ProductionCompany", "PRODUCED_BY", NULL, Prop(it, "name"))
      [] col = "production_countries" ->
           merge_entity(g, m, "Country", "PRODUCED_IN",
                        Prop(it, "iso_3166_1"), Prop(it, "name"))
      [] col = "spoken_languages" ->
           merge_entity(g, m, "Language", "HAS_LANGUAGE",
                        Prop(it, "iso_639_1"), Prop(it, "name"))

(* MERGE (x:Label {key: null}): the store refuses to merge on a null       *)
(* property value, and the statement raises.                               *)
null_merge_key(col, it) ==
    \/ Prop(it, "name") = NULL
    \/ col = "production_countries" /\ Prop(it, "iso_3166_1") = NULL
    \/ col = "spoken_languages" /\ Prop(it, "iso_639_1") = NULL

StructuredColumns ==
    {"genres", "keywords", "production_companies", "production_countries",
     "spoken_languages"}

add_movies_raises(rows) ==
    \E i \in DOMAIN rows : \E col \in StructuredColumns :
        \E j \in DOMAIN rows[i][col].items : null_merge_key(col, rows[i][col].items[j])

(* FOREACH (x IN list | ...): a null list runs the body zero times. *)
RECURSIVE Foreach(_, _, _, _)
Foreach(g, m, col, items) ==
    IF items = <<>>
    THEN g
    ELSE Then(merge_item(g, m, col, Head(items)),
              LAMBDA g1 : Foreach(g1, m, col, Tail(items)))

_merge_genres(g, row) == Foreach(g, row.id, "genres", row.genres.items)

_merge_keywords(g, row) == Foreach(g, row.id, "keywords", row.keywords.items)

_merge_companies(g, row) ==
    Foreach(g, row.id, "production_companies", row.production_companies.items)

_merge_countries(g, row) ==
    Foreach(g, row.id, "production_countries", row.production_countries.items)

_merge_languages(g, row) ==
    Foreach(g, row.id, "spoken_languages", row.spoken_languages.items)

add_movies_row(g, row) ==
    Then(merge_movie(g, row), LAMBDA g1 :
    Then(_merge_genres(g1, row), LAMBDA g2 :
    Then(_merge_keywords(g2, row), LAMBDA g3 :
    Then(_merge_companies(g3, row), LAMBDA g4 :
    Then(_merge_countries(g4, row), LAMBDA g5 :
         _merge_languages(g5, row))))))

(* UNWIND $rows AS row ... RETURN count as total: the graph after the   *)
(* statement and the number of result rows it counted.                     *)
RECURSIVE add_movies_rows(_, _, _)
add_movies_rows(g, rows, total) ==
    IF rows = <<>>
    THEN [db |-> g, total |-> total]
    ELSE Then(add_movies_row(g, Head(rows)), LAMBDA g1 :
         Then(total + BagCount(g1.movies, MovieMatches(g1, Head(rows).id)), LAMBDA n :
              add_movies_rows(g1, Tail(rows), n)))

(* A statement that raises is rolled back as a whole. *)
add_movies(g, rows) ==
    IF add_movies_raises(rows)
    THEN [db |-> g, total |-> NULL, exc |-> "ClientError"]
    ELSE Then(add_movies_rows(g, rows, 0),
              LAMBDA r : [db |-> r.db, total |-> r.total, exc |-> NULL])

(* ---- add_credits ------------------------------------------------------ *)
PersonNode(e) == [person_id |-> e.id, name |-> e.name, gender |-> e.gender]

(* MERGE (p:Person {person_id: e.id}) ON CREATE SET p.name, p.gender *)
merge_person(g, e) ==
    IF \E p \in DOMAIN g.persons : p.person_id = e.id
    THEN g
    ELSE [g EXCEPT !.persons = @ (+) SetToBag({PersonNode(e)})]

Edge(type, p, m) ==
    [type |-> type, person_id |-> p, movie_id |-> m,
     character |-> NULL, job |-> NULL, department |-> NULL, credit_id |-> NULL]

EdgeMatches(g, type, p, m) ==
    {e \in DOMAIN g.edges : e.type = type /\ e.person_id = p /\ e.movie_id = m}

(* As merge_edge with CREATE in place of MERGE. *)
create_edge(g, type, p, m) == [g EXCEPT !.edges = @ (+) SetToBag({Edge(type, p, m)})]

(* MERGE (p)-[r:TYPE]->(m) *)
merge_edge(g, type, p, m) ==
    IF EdgeMatches(g, type, p, m) # {}
    THEN g
    ELSE [g EXCEPT !.edges = @ (+) SetToBag({Edge(type, p, m)})]

(* SET r.<props> on every edge r the MERGE bound: each becomes `new`. *)
set_edges(g, type, p, m, new) ==
    LET S == EdgeMatches(g, type, p, m)
    IN [g EXCEPT !.edges = AddCopies(KeepBag(@, DOMAIN @ \ S), new, BagCount(@, S))]

(* As merge_cast_entry with ON CREATE SET r.character: a matched edge keeps its own. *)
merge_cast_entry_on_create(g, m, c) ==
    LET g1 == merge_person(g, c)
    IN IF EdgeMatches(g1, "ACTED_IN", c.id, m) # {}
       THEN g1
       ELSE [g1 EXCEPT !.edges = @ (+) SetToBag(
                {[Edge("ACTED_IN", c.id, m) EXCEPT !.character = c.character]})]

merge_cast_entry(g, m, c) ==
    LET g1 == merge_person(g, c)
        g2 == merge_edge(g1, "ACTED_IN", c.id, m)
    IN set_edges(g2, "ACTED_IN", c.id, m,
                 [Edge("ACTED_IN", c.id, m) EXCEPT !.character = c.character])

RECURSIVE _merge_cast(_, _, _)
_merge_cast(g, m, cast) ==
    IF cast = <<>>
    THEN g
    ELSE Then(merge_cast_entry(g, m, Head(cast)),
              LAMBDA g1 : _merge_cast(g1, m, Tail(cast)))

merge_crew_entry(g, m, cr) ==
    LET g1 == merge_person(g, cr)
        g2 == IF CaseWhen(Eq3(toLower(cr.job), "director"))
              THEN merge_edge(g1, "DIRECTED", cr.id, m)
              ELSE g1
    IN IF CaseWhen(Neq3(toLower(cr.job), "director"))
       THEN set_edges(merge_edge(g2, "CONTRIBUTED_TO", cr.id, m),
                      "CONTRIBUTED_TO", cr.id, m,
                      [Edge("CONTRIBUTED_TO", cr.id, m) EXCEPT
                           !.job = cr.job,
                           !.department = cr.department,
                           !.credit_id = cr.credit_id])
       ELSE g2

RECURSIVE _merge_crew(_, _, _)
_merge_crew(g, m, crew) ==
    IF crew = <<>>
    THEN g
    ELSE Then(merge_crew_entry(g, m, Head(crew)),
              LAMBDA g1 : _merge_crew(g1, m, Tail(crew)))

(* As add_credits_row without the MATCH: cast and crew are merged for every row. *)
add_credits_row_unmatched(g, row) ==
    Then(_merge_cast(g, row.movie_id, row.cast.items),
         LAMBDA g1 : _merge_crew(g1, row.movie_id, row.crew.items))

(* MATCH (m:Movie {movie_id: row.movie_id}): the row survives once per     *)
(* matching Movie node, and not at all when there is none.                 *)
add_credits_row(g, row) ==
    IF MovieMatches(g, row.movie_id) = {}
    THEN g
    ELSE Then(_merge_cast(g, row.movie_id, row.cast.items),
              LAMBDA g1 : _merge_crew(g1, row.movie_id, row.crew.items))

RECURSIVE add_credits_rows(_, _, _)
add_credits_rows(g, rows, total) ==
    IF rows = <<>>
    THEN [db |-> g, total |-> total]
    ELSE Then(add_credits_row(g, Head(rows)), LAMBDA g1 :
         Then(total + BagCount(g1.movies, MovieMatches(g1, Head(rows).movie_id)), LAMBDA n :
              add_credits_rows(g1, Tail(rows), n)))

(* As add_credits counting every row of the batch, matched or not. *)
add_credits_counting_rows(g, rows) ==
    [db |-> add_credits_rows(g, rows, 0).db, total |-> Len(rows), exc |-> NULL]

add_credits(g, rows) ==
    Then(add_credits_rows(g, rows, 0),
         LAMBDA r : [db |-> r.db, total |-> r.total, exc |-> NULL])

(* ---- is_empty, link, unlink ------------------------------------------- *)
(* As count_nodes with MATCH (n:Person). *)
count_person_nodes(g) == << [total |-> BagCardinality(g.persons)] >>

(* MATCH (n) RETURN count(n) as total *)
count_nodes(g) == << [total |-> NodeCount(g)] >>

(* result[0]["total"] == 0 if result else True *)
is_empty(g) ==
    LET result == count_nodes(g)
    IN IF result # <<>> THEN result[1].total = 0 ELSE TRUE

PersonsNamed(g, name) == {p \in DOMAIN g.persons : CaseWhen(Eq3(p.name, name))}

MoviesTitled(g, title) == {m \in DOMAIN g.movies : CaseWhen(Eq3(m.title, title))}

(* As link_query with CREATE in place of MERGE. *)
link_query_creating(g, name, title) ==
    LET new == {Edge("ACTED_IN", a.person_id, m.movie_id) :
                   <<a, m>> \in PersonsNamed(g, name) \X MoviesTitled(g, title)}
    IN [g EXCEPT !.edges = @ (+) SetToBag(new)]

(* As link_query followed by SET r.character = null on the edge it bound. *)
link_query_resetting(g, name, title) ==
    LET ps == {a.person_id : a \in PersonsNamed(g, name)}
        ms == {m.movie_id : m \in MoviesTitled(g, title)}
        S == {e \in DOMAIN g.edges :
                 e.type = "ACTED_IN" /\ e.person_id \in ps /\ e.movie_id \in ms}
    IN [g EXCEPT !.edges = SetToBag({Edge("ACTED_IN", p, m) : <<p, m>> \in ps \X ms})
                             (+) KeepBag(@, DOMAIN @ \ S)]

(* MATCH (a:Person {name}) MATCH (m:Movie {title}) MERGE (a)-[:ACTED_IN]->(m) *)
link_query(g, name, title) ==
    LET new == {Edge("ACTED_IN", a.person_id, m.movie_id) :
                   <<a, m>> \in {pm \in PersonsNamed(g, name) \X MoviesTitled(g, title) :
                        EdgeMatches(g, "ACTED_IN", pm[1].person_id, pm[2].movie_id) = {}}}
    IN [g EXCEPT !.edges = @ (+) SetToBag(new)]

(* As unlink_query, deleting the edges of one of the matched persons only. *)
unlink_query_one_person(g, name, title) ==
    LET ps == {a.person_id : a \in PersonsNamed(g, name)}
        ms == {m.movie_id : m \in MoviesTitled(g, title)}
    IN [g EXCEPT !.edges =
           KeepBag(@, {e \in DOMAIN @ :
                          ~(/\ e.type = "ACTED_IN"
                            /\ e.person_id \in ps
                            /\ \A q \in ps : e.person_id <= q
                            /\ e.movie_id \in ms)})]

(* MATCH (a:Person {name})-[r:ACTED_IN]->(m:Movie {title}) DELETE r *)
unlink_query(g, name, title) ==
    LET ps == {a.person_id : a \in PersonsNamed(g, name)}
        ms == {m.movie_id : m \in MoviesTitled(g, title)}
    IN [g EXCEPT !.edges =
           KeepBag(@, {e \in DOMAIN @ :
                          ~(e.type = "ACTED_IN" /\ e.person_id \in ps /\ e.movie_id \in ms)})]

(***************************************************************************)
(* The data files, by row number.  The movies file mentions every movie id *)
(* twice in a row, with two payloads, and its last row has the wrongly     *)
(* shaped genres cell; the credits file rotates over the movie ids and one *)
(* id that no movies file holds.                                           *)
(***************************************************************************)
MoviesCsvRow(i) ==
    RawMovieRow((((i - 1) \div 2) % MaxMovieId) + 1,
                IF i = MaxRows THEN 3 ELSE ((i - 1) % 2) + 1)

CreditsCsvRow(i) ==
    RawCreditRow(((i - 1) % (MaxMovieId + 1)) + 1, (((i - 1) \div 2) % 3) + 1)

(* transform_*(chunk).to_dict(orient="records"), chunk given as row numbers. *)
ToRecords(kind, chunk) ==
    IF kind = "movies"
    THEN transform_movies([j \in DOMAIN chunk |-> MoviesCsvRow(chunk[j])])
    ELSE transform_credits([j \in DOMAIN chunk |-> CreditsCsvRow(chunk[j])])

(***************************************************************************)
(* The inputs of the catalog operations: a batch is a run of at most       *)
(* MaxBatch consecutive rows of a file.                                    *)
(***************************************************************************)
Batches(kind) ==
    {ToRecords(kind, [j \in 1..n |-> i + j - 1]) :
        <<i, n>> \in {x \in (1..MaxRows) \X (1..MaxBatch) : x[1] + x[2] - 1 <= MaxRows}}

(* The graph an earlier session left in the store: main() ingests the      *)
(* movies file up to a limit, then the credits file, when it finds the     *)
(* store empty.                                                            *)
Populated ==
    LET movies == add_movies(EmptyDb, ToRecords("movies", [j \in 1..(MaxRows - 1) |-> j])).db
    IN add_credits(movies, ToRecords("credits", [j \in 1..MaxRows |-> j])).db

ActorNames == {"Ann", "Bob", "Nobody"}

MovieTitles == {"Avatar", "Titanic", "Nothing"}

(***************************************************************************)
(* State.  db is the graph; pre is the graph before the last store call;   *)
(* call is the last catalog call with its arguments and outcome; run is    *)
(* the ingestion run in progress (run.start is the graph it began on);     *)
(* ncalls counts the operations started.                                   *)
(***************************************************************************)
NoCall ==
    [op |-> "none", rows |-> <<>>, actor_name |-> NULL, movie_title |-> NULL,
     available |-> TRUE, store_ok |-> TRUE, raised |-> FALSE, exc |-> NULL,
     ret |-> NULL]

IdleRun ==
    [pc |-> "idle", kind |-> "none", nrows |-> 0, chunk_size |-> 1,
     has_limit |-> FALSE, limit |-> 0, total_chunks |-> 0, chunks_read |-> 0,
     printed |-> <<>>, handed |-> <<>>, total_processed |-> 0,
     total_inserted |-> 0, ret |-> 0, start |-> EmptyDb]

(* The catalog object: where its life is (pc), the constructor arguments,  *)
(* the driver it holds, the session of the query in progress, and the      *)
(* exception being raised.                                                 *)
Fresh ==
    [pc |-> "start", uri |-> NULL, user |-> NULL, password |-> NULL,
     db_name |-> NULL, driver |-> "none", session |-> "none", exc |-> NULL]

(* A catalog inside its with-block, between two queries. *)
InBlock ==
    [Fresh EXCEPT !.pc = "block", !.uri = "bolt://localhost:7687", !.user = "neo4j",
                  !.password = "secret", !.db_name = "movies", !.driver = "open"]

(* The store outlives the program: a session finds it empty or populated. *)
Init ==
    /\ conn = InBlock
    /\ db \in {EmptyDb, Populated}
    /\ pre = db
    /\ call = NoCall
    /\ run = IdleRun
    /\ ncalls = 0

(* query(): the session runs the statement.  store_ok = FALSE is the store *)
(* failing the call; the call raises then, and when the statement itself   *)
(* raises, and the graph is left as it was.  The call record keeps the     *)
(* store's state as `available` and the call's success as `store_ok`.      *)
AddMovies(rows, store_ok) ==
    /\ ncalls < MaxCalls
    /\ run.pc = "idle"
    /\ \E r \in {add_movies(db, rows)} :
       LET ok == store_ok /\ r.exc = NULL
       IN /\ db' = IF ok THEN r.db ELSE db
          /\ call' = [NoCall EXCEPT !.op = "add_movies", !.rows = rows,
                                    !.available = store_ok,
                                    !.store_ok = ok, !.raised = ~ok,
                                    !.ret = IF ok THEN << [total |-> r.total] >> ELSE NULL]
    /\ pre' = db
    /\ ncalls' = ncalls + 1
    /\ UNCHANGED <<run, conn>>

AddCredits(rows, store_ok) ==
    /\ ncalls < MaxCalls
    /\ run.pc = "idle"
    /\ \E r \in {add_credits(db, rows)} :
       LET ok == store_ok /\ r.exc = NULL
       IN /\ db' = IF ok THEN r.db ELSE db
          /\ call' = [NoCall EXCEPT !.op = "add_credits", !.rows = rows,
                                    !.available = store_ok,
                                    !.store_ok = ok, !.raised = ~ok,
                                    !.ret = IF ok THEN << [total |-> r.total] >> ELSE NULL]
    /\ pre' = db
    /\ ncalls' = ncalls + 1
    /\ UNCHANGED <<run, conn>>

IsEmpty(store_ok) ==
    /\ ncalls < MaxCalls
    /\ run.pc # "loop"
    /\ call' = [NoCall EXCEPT !.op = "is_empty", !.available = store_ok,
                              !.store_ok = store_ok,
                              !.raised = ~store_ok,
                              !.ret = IF store_ok THEN is_empty(db) ELSE NULL]
    /\ pre' = db
    /\ ncalls' = ncalls + 1
    /\ UNCHANGED <<db, run, conn>>

(* try: self.query(...); return True / except Exception: return False *)
link_actor_to_movie(actor_name, movie_title, store_ok) ==
    /\ ncalls < MaxCalls
    /\ run.pc = "idle"
    /\ db' = IF store_ok THEN link_query(db, actor_name, movie_title) ELSE db
    /\ call' = [NoCall EXCEPT !.op = "link_actor_to_movie",
                              !.actor_name = actor_name, !.movie_title = movie_title,
                              !.available = store_ok,
                              !.store_ok = store_ok, !.raised = FALSE,
                              !.ret = IF store_ok THEN TRUE ELSE FALSE]
    /\ pre' = db
    /\ ncalls' = ncalls + 1
    /\ UNCHANGED <<run, conn>>

unlink_actor_from_movie(actor_name, movie_title, store_ok) ==
    /\ ncalls < MaxCalls
    /\ run.pc = "idle"
    /\ db' = IF store_ok THEN unlink_query(db, actor_name, movie_title) ELSE db
    /\ call' = [NoCall EXCEPT !.op = "unlink_actor_from_movie",
                              !.actor_name = actor_name, !.movie_title = movie_title,
                              !.available = store_ok,
                              !.store_ok = store_ok, !.raised = FALSE,
                              !.ret = IF store_ok THEN TRUE ELSE FALSE]
    /\ pre' = db
    /\ ncalls' = ncalls + 1
    /\ UNCHANGED <<run, conn>>

Next ==
    \/ \E rows \in Batches("movies"), ok \in BOOLEAN : AddMovies(rows, ok)
    \/ \E rows \in Batches("credits"), ok \in BOOLEAN : AddCredits(rows, ok)
    \/ \E ok \in BOOLEAN : IsEmpty(ok)
    \/ \E a \in ActorNames, t \in MovieTitles, ok \in BOOLEAN :
          link_actor_to_movie(a, t, ok)
    \/ \E a \in ActorNames, t \in MovieTitles, ok \in BOOLEAN :
          unlink_actor_from_movie(a, t, ok)

Spec == Init /\ [][Next]_vars

(***************************************************************************)
(* The chunked ingestion loops, populate_movies_from_csv and               *)
(* populate_credits_from_csv.                                              *)
(***************************************************************************)
(* math.ceil(total_rows / chunksize) *)
_get_total_chunks(nrows, chunksize) == (nrows + chunksize - 1) \div chunksize

(* The k-th chunk pd.read_csv(chunksize=c) yields, as row numbers. *)
ReadChunk(nrows, c, k) == [j \in 1..Min(c, nrows - (k - 1) * c) |-> (k - 1) * c + j]

(* As HeadRows without the truncation. *)
WholeChunk(chunk, n) == chunk

(* chunk.head(n) for n > 0 *)
HeadRows(chunk, n) == SubSeq(chunk, 1, Min(n, Len(chunk)))

StoreCall(kind, g, rows) ==
    IF kind = "movies" THEN add_movies(g, rows) ELSE add_credits(g, rows)

(* As raise_out with the exception caught in the loop body: the loop goes  *)
(* on to the next chunk.                                                   *)
catch_and_continue(read, limited) ==
    [read EXCEPT !.handed = Append(@, limited),
                 !.total_processed = @ + Len(limited)]

(* self.add_movies / self.add_credits raised: the loop body has no except  *)
(* clause, so the exception leaves the loop and the method.                *)
raise_out(read, limited) ==
    [read EXCEPT !.handed = Append(@, limited), !.pc = "raised"]

PopulateStart(kind, nrows, chunk_size, has_limit, limit) ==
    /\ run.pc # "loop"
    /\ ncalls < MaxRuns
    /\ run' = [IdleRun EXCEPT !.pc = "loop", !.kind = kind, !.nrows = nrows,
                              !.chunk_size = chunk_size, !.has_limit = has_limit,
                              !.limit = limit, !.start = db,
                              !.total_chunks = _get_total_chunks(nrows, chunk_size)]
    /\ ncalls' = ncalls + 1
    /\ pre' = db
    /\ call' = NoCall
    /\ UNCHANGED <<db, conn>>

(* One pass of `for i, chunk in enumerate(reader)` when the reader still   *)
(* has a chunk: the chunk is read and reported, then limited, transformed  *)
(* and handed to the store.                                                *)
PopulateChunk(store_ok) ==
    /\ run.pc = "loop"
    /\ run.chunks_read < _get_total_chunks(run.nrows, run.chunk_size)
    /\ LET k == run.chunks_read + 1
           chunk == ReadChunk(run.nrows, run.chunk_size, k)
           read == [run EXCEPT !.chunks_read = k,
                               !.printed = Append(@, [index |-> k,
                                                      total |-> run.total_chunks,
                                                      rows |-> Len(chunk)])]
           remaining == run.limit - run.total_processed
       IN IF run.has_limit /\ remaining <= 0
          THEN /\ run' = [read EXCEPT !.pc = "returned", !.ret = run.total_inserted]
               /\ UNCHANGED <<db, pre, call>>
          ELSE \E limited \in {IF run.has_limit THEN HeadRows(chunk, remaining) ELSE chunk} :
               \E rows \in {ToRecords(run.kind, limited)} :
               \E r \in {StoreCall(run.kind, db, rows)} :
               LET ok == store_ok /\ r.exc = NULL
               IN IF rows = <<>>
                  THEN /\ run' = [read EXCEPT !.total_processed = @ + Len(limited)]
                       /\ UNCHANGED <<db, pre, call>>
                  ELSE /\ pre' = db
                       /\ call' = [NoCall EXCEPT
                              !.op = IF run.kind = "movies" THEN "add_movies" ELSE "add_credits",
                              !.rows = rows, !.available = store_ok,
                              !.store_ok = ok, !.raised = ~ok,
                              !.ret = IF ok THEN << [total |-> r.total] >> ELSE NULL]
                       /\ db' = IF ok THEN r.db ELSE db
                       /\ run' = IF ok
                                 THEN [read EXCEPT !.handed = Append(@, limited),
                                                   !.total_inserted = @ + r.total,
                                                   !.total_processed = @ + Len(limited)]
                                 ELSE raise_out(read, limited)
    /\ UNCHANGED <<ncalls, conn>>

(* The reader is exhausted: the loop ends and total_inserted is returned. *)
PopulateReturn ==
    /\ run.pc = "loop"
    /\ run.chunks_read = _get_total_chunks(run.nrows, run.chunk_size)
    /\ run' = [run EXCEPT !.pc = "returned", !.ret = run.total_inserted]
    /\ UNCHANGED <<db, pre, call, ncalls, conn>>

(* The files a run is given: empty, one row, MaxRows rows. *)
FileSizes == {0, 1, MaxRows}

NextIngest ==
    \/ \E kind \in {"movies", "credits"}, nrows \in FileSizes, c \in 1..MaxChunk :
          \/ PopulateStart(kind, nrows, c, FALSE, 0)
          \/ \E limit \in -1..MaxLimit : PopulateStart(kind, nrows, c, TRUE, limit)
    \/ \E ok \in BOOLEAN : PopulateChunk(ok)
    \/ PopulateReturn
    \/ \E ok \in BOOLEAN : IsEmpty(ok)

SpecIngest == Init /\ [][NextIngest]_vars

(***************************************************************************)
(* The life of the catalog object: construction, the with-block, the       *)
(* session of each query, close.                                           *)
(***************************************************************************)
ArgValues == {NULL, "", "   ", "set"}

(* not s or s.strip() == "" *)
Blank(s) == s = NULL \/ Strip(s) = ""

InitConn ==
    /\ conn = Fresh
    /\ db \in {EmptyDb, Populated}
    /\ pre = db
    /\ call = NoCall
    /\ run = IdleRun
    /\ ncalls = 0

(* __init__, and __enter__ when it returns: the four checks, then the      *)
(* driver is made, then verify_connectivity(), which raises when the store *)
(* is not reachable.                                                       *)
Construct(uri, user, password, db_name, reachable) ==
    /\ conn.pc = "start"
    /\ LET given == [conn EXCEPT !.uri = uri, !.user = user,
                                 !.password = password, !.db_name = db_name]
       IN conn' = IF Blank(uri) \/ Blank(user) \/ Blank(password) \/ Blank(db_name)
                  THEN [given EXCEPT !.pc = "failed", !.exc = "ValueError"]
                  ELSE IF ~reachable
                       THEN [given EXCEPT !.pc = "failed", !.driver = "open",
                                          !.exc = "ServiceUnavailable"]
                       ELSE [given EXCEPT !.pc = "block", !.driver = "open"]
    /\ UNCHANGED <<db, pre, call, run, ncalls>>

(* query(): with self.__driver.session(...) as session -- a closed driver  *)
(* gives no session and raises.                                            *)
QueryOpenSession ==
    /\ conn.pc = "block"
    /\ conn' = IF conn.driver = "open"
               THEN [conn EXCEPT !.pc = "query", !.session = "open", !.exc = NULL]
               ELSE [conn EXCEPT !.exc = "DriverError"]
    /\ UNCHANGED <<db, pre, call, run, ncalls>>

(* query(): list(session.run(...)) returns or raises; leaving the with     *)
(* statement closes the session either way.  A raise is caught by the      *)
(* caller (link / unlink) or unwinds the with-block of the catalog.        *)
QueryRun(ok, caught) ==
    /\ conn.pc = "query"
    /\ conn' = [conn EXCEPT !.session = "none",
                            !.exc = IF ok THEN NULL ELSE "QueryError",
                            !.pc = IF ok \/ caught THEN "block" ELSE "unwinding"]
    /\ UNCHANGED <<db, pre, call, run, ncalls>>

(* Any other exception in the with-block. *)
BlockRaises ==
    /\ conn.pc = "block"
    /\ conn' = [conn EXCEPT !.pc = "unwinding", !.exc = "Exception"]
    /\ UNCHANGED <<db, pre, call, run, ncalls>>

(* close(): if self.__driver is not None: self.__driver.close() *)
close(c) == IF c.driver # "none" THEN [c EXCEPT !.driver = "closed"] ELSE c

(* close() called in the with-block. *)
Close ==
    /\ conn.pc = "block"
    /\ conn' = close(conn)
    /\ UNCHANGED <<db, pre, call, run, ncalls>>

(* __exit__, at the end of the with-block or as an exception unwinds it. *)
Exit ==
    /\ conn.pc \in {"block", "unwinding"}
    /\ conn' = [close(conn) EXCEPT !.pc = "done"]
    /\ UNCHANGED <<db, pre, call, run, ncalls>>

NextConn ==
    \/ \E uri \in ArgValues, user \in ArgValues, password \in ArgValues,
          db_name \in ArgValues, reachable \in BOOLEAN :
          Construct(uri, user, password, db_name, reachable)
    \/ QueryOpenSession
    \/ \E ok \in BOOLEAN, caught \in BOOLEAN : QueryRun(ok, caught)
    \/ BlockRaises
    \/ Close
    \/ Exit

SpecConn == InitConn /\ [][NextConn]_vars

(***************************************************************************)
(* The parsers on their own: each is applied to one raw cell.              *)
(***************************************************************************)
MissingCells == {NaN, PyNone, Num, Str(""), Str("   ")}

DictCells ==
    MissingCells \cup {Str(t) : t \in Range(GenresText) \cup Range(KeywordsText)
                                     \cup Range(CompaniesText) \cup Range(CountriesText)
                                     \cup Range(LanguagesText)
                                     \cup Range(Titles)
                                     \cup {UnhashableText, DeepText}}

JsonCells ==
    MissingCells \cup {Str(t) : t \in Range(CastText) \cup Range(CrewText)
                                     \cup Range(Titles)
                                     \cup {"{broken", UnhashableText, DeepText}}

DateCells ==
    MissingCells \cup {Str(t) : t \in Range(DateText) \cup Range(Titles) \cup {"{broken"}}

ListCells == MissingCells \cup {Str(t) : t \in Range(ListText) \cup Range(Titles)}

(* The record of a parser call: the value returned or the exception raised. *)
ParserCall(fn, value, r) ==
    [NoCall EXCEPT !.op = fn, !.rows = << value >>, !.raised = r.exc # NULL,
                   !.exc = r.exc, !.ret = r.value]

ParseDict(value) ==
    /\ run.pc = "idle"
    /\ call' = ParserCall("parse_dict", value, parse_dict(value))
    /\ pre' = db
    /\ UNCHANGED <<db, run, ncalls, conn>>

ParseList(value) ==
    /\ run.pc = "idle"
    /\ call' = ParserCall("parse_list", value, parse_list(value))
    /\ pre' = db
    /\ UNCHANGED <<db, run, ncalls, conn>>

ParseDate(value) ==
    /\ run.pc = "idle"
    /\ call' = ParserCall("parse_date", value, parse_date(value))
    /\ pre' = db
    /\ UNCHANGED <<db, run, ncalls, conn>>

ParseJson(value) ==
    /\ run.pc = "idle"
    /\ call' = ParserCall("parse_json", value, parse_json(value))
    /\ pre' = db
    /\ UNCHANGED <<db, run, ncalls, conn>>

NextParse ==
    \/ \E value \in DictCells : ParseDict(value)
    \/ \E value \in ListCells : ParseList(value)
    \/ \E value \in DateCells : ParseDate(value)
    \/ \E value \in JsonCells : ParseJson(value)

SpecParse == Init /\ [][NextParse]_vars

(***************************************************************************)
(* Properties of the graph operations (specification Spec).                *)
(***************************************************************************)

(* C1: add_movies leaves exactly one Movie node for every id of the batch, *)
(* and its scalar attributes are those of the first ingestion: a node that *)
(* existed before the call is unchanged even when the batch carries other  *)
(* values, and a node the call created carries the values of the first row *)
(* of the batch with that id.                                              *)
C1_MovieAttributesSetOnce ==
    (call.op = "add_movies" /\ call.store_ok) =>
        \A i \in DOMAIN call.rows :
            LET id == call.rows[i].id
                first == CHOOSE k \in DOMAIN call.rows :
                            /\ call.rows[k].id = id
                            /\ \A l \in 1..(k - 1) : call.rows[l].id # id
            IN /\ BagCount(db.movies, MovieMatches(db, id)) = 1
               /\ \A n \in MovieMatches(db, id) :
                     IF MovieMatches(pre, id) # {}
                     THEN n \in MovieMatches(pre, id)
                     ELSE n = MovieNode(call.rows[first])

(* A second batch re-ingested a movie id with a payload that differs from the node's. *)
C1_Witness ==
    /\ call.op = "add_movies" /\ call.store_ok
    /\ \E i \in DOMAIN call.rows : \E n \in MovieMatches(pre, call.rows[i].id) :
          /\ n.title # call.rows[i].title
          /\ n.release_date # call.rows[i].release_date
          /\ n \in DOMAIN db.movies

(* C2: the graph never holds two nodes with one identity key, nor two      *)
(* edges of one type between the same ordered pair of nodes.               *)
C2_NoDuplicateNodesOrEdges ==
    /\ \A m \in DOMAIN db.movies :
          /\ db.movies[m] = 1
          /\ \A m2 \in DOMAIN db.movies : m2.movie_id = m.movie_id => m2 = m
    /\ \A p \in DOMAIN db.persons :
          /\ db.persons[p] = 1
          /\ \A p2 \in DOMAIN db.persons : p2.person_id = p.person_id => p2 = p
    /\ \A n \in DOMAIN db.entities :
          /\ db.entities[n] = 1
          /\ \A n2 \in DOMAIN db.entities :
                (/\ n2.label = n.label
                 /\ n2.name = n.name
                 /\ (n.label \in {"Country", "Language"} => n2.iso_code = n.iso_code))
                => n2 = n
    /\ \A r \in DOMAIN db.rels : db.rels[r] = 1
    /\ \A e \in DOMAIN db.edges :
          /\ db.edges[e] = 1
          /\ \A e2 \in DOMAIN db.edges :
                (e2.type = e.type /\ e2.person_id = e.person_id /\ e2.movie_id = e.movie_id)
                => e2 = e

(* A credits batch re-merged a person and an ACTED_IN edge that were already there. *)
C2_Witness ==
    /\ call.op = "add_credits" /\ call.store_ok
    /\ \E i \in DOMAIN call.rows : \E j \in DOMAIN call.rows[i].cast.items :
          LET c == call.rows[i].cast.items[j]
          IN /\ \E p \in DOMAIN pre.persons : p.person_id = c.id
             /\ EdgeMatches(pre, "ACTED_IN", c.id, call.rows[i].movie_id) # {}
             /\ \E k \in DOMAIN call.rows[i].cast.items :
                   k # j /\ call.rows[i].cast.items[k].id = c.id
    /\ BagCardinality(db.rels) > 0

(* C3: after add_credits, every cast entry of a row whose movie exists has *)
(* exactly one ACTED_IN edge from its person to the movie, and the edge's  *)
(* character is that of the last cast entry of the batch for that person   *)
(* and movie, whatever the edge carried before.                            *)
C3_CharacterOverwritten ==
    (call.op = "add_credits" /\ call.store_ok) =>
        \A i \in DOMAIN call.rows :
            MovieMatches(pre, call.rows[i].movie_id) # {} =>
                \A j \in DOMAIN call.rows[i].cast.items :
                    LET p == call.rows[i].cast.items[j].id
                        m == call.rows[i].movie_id
                        li == CHOOSE a \in DOMAIN call.rows :
                                 /\ call.rows[a].movie_id = m
                                 /\ \E b \in DOMAIN call.rows[a].cast.items :
                                       call.rows[a].cast.items[b].id = p
                                 /\ \A a2 \in (a + 1)..Len(call.rows) :
                                       call.rows[a2].movie_id = m =>
                                          \A b \in DOMAIN call.rows[a2].cast.items :
                                             call.rows[a2].cast.items[b].id # p
                        lj == CHOOSE b \in DOMAIN call.rows[li].cast.items :
                                 /\ call.rows[li].cast.items[b].id = p
                                 /\ \A b2 \in (b + 1)..Len(call.rows[li].cast.items) :
                                       call.rows[li].cast.items[b2].id # p
                    IN /\ BagCount(db.edges, EdgeMatches(db, "ACTED_IN", p, m)) = 1
                       /\ \A e \in EdgeMatches(db, "ACTED_IN", p, m) :
                             e.character = call.rows[li].cast.items[lj].character

(* An ACTED_IN edge that carried one character now carries another. *)
C3_Witness ==
    /\ call.op = "add_credits" /\ call.store_ok
    /\ \E old \in DOMAIN pre.edges : \E new \in DOMAIN db.edges :
          /\ old.type = "ACTED_IN" /\ new.type = "ACTED_IN"
          /\ old.person_id = new.person_id /\ old.movie_id = new.movie_id
          /\ old.character \notin {NULL, new.character}
          /\ new.character # NULL

(* C4: every crew entry of a row whose movie exists is classified exactly  *)
(* once: a job equal to "director" ignoring case gives a DIRECTED edge,    *)
(* every other job (a null job too) a CONTRIBUTED_TO edge; and no DIRECTED *)
(* or CONTRIBUTED_TO edge appears or changes without such an entry.        *)
C4_CrewClassifiedExactlyOnce ==
    (call.op = "add_credits" /\ call.store_ok) =>
        LET director(job) == job \in {"director", "Director", "DIRECTOR"}
            matched == {a \in DOMAIN call.rows :
                           MovieMatches(pre, call.rows[a].movie_id) # {}}
            HasEntry(p, m, dir) ==
                \E a \in matched : \E b \in DOMAIN call.rows[a].crew.items :
                    /\ call.rows[a].movie_id = m
                    /\ call.rows[a].crew.items[b].id = p
                    /\ director(call.rows[a].crew.items[b].job) = dir
        IN /\ \A a \in matched : \A b \in DOMAIN call.rows[a].crew.items :
                 LET cr == call.rows[a].crew.items[b]
                     m == call.rows[a].movie_id
                 IN IF director(cr.job)
                    THEN EdgeMatches(db, "DIRECTED", cr.id, m) # {}
                    ELSE \E e \in EdgeMatches(db, "CONTRIBUTED_TO", cr.id, m) :
                            \E a2 \in matched : \E b2 \in DOMAIN call.rows[a2].crew.items :
                               LET cr2 == call.rows[a2].crew.items[b2]
                               IN /\ call.rows[a2].movie_id = m
                                  /\ cr2.id = cr.id
                                  /\ ~director(cr2.job)
                                  /\ e.job = cr2.job
                                  /\ e.department = cr2.department
                                  /\ e.credit_id = cr2.credit_id
           /\ \A e \in DOMAIN db.edges :
                 e \notin DOMAIN pre.edges =>
                    /\ e.type = "DIRECTED" => HasEntry(e.person_id, e.movie_id, TRUE)
                    /\ e.type = "CONTRIBUTED_TO" => HasEntry(e.person_id, e.movie_id, FALSE)

(* C5: add_credits creates no Movie, and every Person node and every edge  *)
(* it creates or changes comes from a cast or crew entry of a row whose    *)
(* movie exists; a batch none of whose movies exists leaves the graph as   *)
(* it was; the rows whose movie exists are applied.                        *)
C5_AbsentMovieRowChangesNothing ==
    (call.op = "add_credits" /\ call.store_ok) =>
        LET matched == {a \in DOMAIN call.rows :
                           MovieMatches(pre, call.rows[a].movie_id) # {}}
            Mentions(a, p) ==
                \/ \E b \in DOMAIN call.rows[a].cast.items : call.rows[a].cast.items[b].id = p
                \/ \E b \in DOMAIN call.rows[a].crew.items : call.rows[a].crew.items[b].id = p
        IN /\ db.movies = pre.movies
           /\ db.entities = pre.entities
           /\ db.rels = pre.rels
           /\ \A p \in DOMAIN pre.persons : p \in DOMAIN db.persons /\ db.persons[p] = pre.persons[p]
           /\ \A p \in DOMAIN db.persons \ DOMAIN pre.persons :
                 \E a \in matched : Mentions(a, p.person_id)
           /\ \A e \in (DOMAIN db.edges \cup DOMAIN pre.edges) :
                 (\/ e \notin DOMAIN pre.edges
                  \/ e \notin DOMAIN db.edges
                  \/ db.edges[e] # pre.edges[e])
                 => \E a \in matched :
                       call.rows[a].movie_id = e.movie_id /\ Mentions(a, e.person_id)
           /\ matched = {} => db = pre
           /\ \A a \in matched : \A b \in DOMAIN call.rows[a].cast.items :
                 /\ \E p \in DOMAIN db.persons : p.person_id = call.rows[a].cast.items[b].id
                 /\ EdgeMatches(db, "ACTED_IN", call.rows[a].cast.items[b].id,
                                call.rows[a].movie_id) # {}

(* One batch held a row whose movie is absent and a row whose movie exists. *)
C5_Witness ==
    /\ call.op = "add_credits" /\ call.store_ok
    /\ \E a \in DOMAIN call.rows :
          /\ MovieMatches(pre, call.rows[a].movie_id) = {}
          /\ call.rows[a].cast.items # <<>>
    /\ \E a \in DOMAIN call.rows :
          /\ MovieMatches(pre, call.rows[a].movie_id) # {}
          /\ call.rows[a].cast.items # <<>>
    /\ db # pre

(* C10: link_actor_to_movie and unlink_actor_from_movie never raise, and   *)
(* return False whenever no Person has the name, no Movie has the title,   *)
(* or the store call raised.                                               *)
C10_EditReportsFailure ==
    call.op \in {"link_actor_to_movie", "unlink_actor_from_movie"} =>
        /\ ~call.raised
        /\ (\/ PersonsNamed(pre, call.actor_name) = {}
            \/ MoviesTitled(pre, call.movie_title) = {}
            \/ ~call.store_ok)
           => call.ret = FALSE

(***************************************************************************)
(* Properties of the ingestion loops (specification SpecIngest).           *)
(***************************************************************************)

(* C6: a run that returns has handed the store rows 1..min(L, N) (N        *)
(* without a limit, none for L <= 0) in source order, in batches of at     *)
(* most c rows, every batch before the last of exactly c rows.             *)
C6_BatchesHonourLimit ==
    run.pc = "returned" =>
        LET expected == IF run.has_limit
                        THEN IF run.limit <= 0 THEN 0 ELSE Min(run.limit, run.nrows)
                        ELSE run.nrows
            start(b) == (b - 1) * run.chunk_size
        IN /\ \A b \in DOMAIN run.handed :
                 /\ Len(run.handed[b]) >= 1
                 /\ Len(run.handed[b]) <= run.chunk_size
                 /\ b < Len(run.handed) => Len(run.handed[b]) = run.chunk_size
                 /\ \A j \in DOMAIN run.handed[b] : run.handed[b][j] = start(b) + j
           /\ IF run.handed = <<>>
              THEN expected = 0
              ELSE start(Len(run.handed)) + Len(run.handed[Len(run.handed)]) = expected

(* A limit cut the last batch short of both the chunk size and the chunk read. *)
C6_Witness ==
    /\ run.pc = "returned"
    /\ run.has_limit
    /\ run.limit < run.nrows
    /\ Len(run.handed) >= 2
    /\ Len(run.handed[Len(run.handed)]) < run.chunk_size
    /\ run.printed[Len(run.handed)].rows > Len(run.handed[Len(run.handed)])

(* C7: once the rows processed have reached the limit, no further chunk is *)
(* read from the reader or reported: every chunk read was handed on.       *)
C7_NoChunkReadAfterLimit ==
    (run.has_limit /\ run.total_processed >= run.limit) =>
        /\ run.chunks_read = Len(run.handed)
        /\ Len(run.printed) = Len(run.handed)

(* C8 as claimed: the value returned is the number of rows handed to the   *)
(* store, whether or not a credits row's movie exists.                     *)
C8_ReturnsRowsHanded ==
    run.pc = "returned" =>
        run.ret = Cardinality(UNION {Range(run.handed[b]) : b \in DOMAIN run.handed})

(* C8 as amended: populate_movies_from_csv returns the number of rows      *)
(* handed to the store; populate_credits_from_csv returns the number of    *)
(* rows handed to the store whose movie exists.                            *)
C8_ReturnsRowsCounted ==
    run.pc = "returned" =>
        LET rows == UNION {Range(run.handed[b]) : b \in DOMAIN run.handed}
        IN run.ret = IF run.kind = "movies"
                     THEN Cardinality(rows)
                     ELSE Cardinality({i \in rows :
                              MovieMatches(db, CreditsCsvRow(i).movie_id) # {}})

(* A credits run returned a count that is positive and below the rows it handed on. *)
C8_Witness ==
    /\ run.pc = "returned"
    /\ run.kind = "credits"
    /\ run.ret >= 1
    /\ run.ret < Cardinality(UNION {Range(run.handed[b]) : b \in DOMAIN run.handed})

(* C9 as claimed: is_empty() is true exactly when the store holds no node, *)
(* and false after any run, movies or credits, that returned having        *)
(* processed at least one row.                                             *)
C9_NotEmptyAfterAnyRun ==
    /\ is_empty(db) <=> NodeCount(db) = 0
    /\ (call.op = "is_empty" /\ call.store_ok) => (call.ret <=> NodeCount(db) = 0)
    /\ (run.pc = "returned" /\ run.total_processed >= 1) => ~is_empty(db)

(* C9 as amended: is_empty() is true exactly when the store holds no node, *)
(* and false after a movies run that returned having processed at least    *)
(* one row, and after a credits run that returned having processed at      *)
(* least one row whose movie exists.                                       *)
C9_NotEmptyAfterMerge ==
    /\ is_empty(db) <=> NodeCount(db) = 0
    /\ (call.op = "is_empty" /\ call.store_ok) => (call.ret <=> NodeCount(db) = 0)
    /\ (/\ run.pc = "returned"
        /\ \/ run.kind = "movies" /\ run.total_processed >= 1
           \/ run.kind = "credits" /\ run.ret >= 1)
       => ~is_empty(db)

(* is_empty() answered False after a movies run that processed rows. *)
C9_Witness ==
    /\ call.op = "is_empty" /\ call.store_ok
    /\ call.ret = FALSE
    /\ run.pc = "returned"
    /\ run.kind = "movies"
    /\ run.total_processed >= 1

(***************************************************************************)
(* Properties of the link / unlink edits (specification Spec).             *)
(***************************************************************************)

(* C11: after a link call that reached the store, every Person with the    *)
(* given name has exactly one ACTED_IN edge to every Movie with the given  *)
(* title, however many link calls came before; an edge that was there      *)
(* before the call (created by link or by credits ingestion) is as it was, *)
(* and when every such edge was there the graph is unchanged.              *)
C11_LinkIdempotent ==
    (call.op = "link_actor_to_movie" /\ call.store_ok) =>
        LET ps == {p \in DOMAIN db.persons : p.name = call.actor_name}
            ms == {m \in DOMAIN db.movies : m.title = call.movie_title}
            Acted(g, p, m) == {e \in DOMAIN g.edges :
                                  /\ e.type = "ACTED_IN"
                                  /\ e.person_id = p.person_id
                                  /\ e.movie_id = m.movie_id}
        IN /\ \A p \in ps, m \in ms : BagCount(db.edges, Acted(db, p, m)) = 1
           /\ \A p \in ps, m \in ms :
                 Acted(pre, p, m) # {} => Acted(db, p, m) = Acted(pre, p, m)
           /\ (\A p \in ps, m \in ms : Acted(pre, p, m) # {}) => db = pre

(* A link call repeated on a linked pair: before it, edges made by credits *)
(* ingestion (with a character) and by link (without) were both there.     *)
C11_Witness ==
    /\ call.op = "link_actor_to_movie" /\ call.store_ok
    /\ db = pre
    /\ \E e1, e2 \in DOMAIN pre.edges :
          /\ e1.type = "ACTED_IN" /\ e2.type = "ACTED_IN"
          /\ e1.character # NULL /\ e2.character = NULL
          /\ \A e \in {e1, e2} :
                /\ \E p \in DOMAIN pre.persons :
                      p.person_id = e.person_id /\ p.name = call.actor_name
                /\ \E m \in DOMAIN pre.movies :
                      m.movie_id = e.movie_id /\ m.title = call.movie_title

(* C12: after an unlink call that returned True no ACTED_IN edge joins a   *)
(* Person with the given name to a Movie with the given title; unlinking   *)
(* the pair a link call has just linked, when no such edge was there       *)
(* before the link, gives back the graph before the link; and no other     *)
(* operation removes an edge.                                              *)
C12_UnlinkRemoves ==
    LET Named(g) == {p.person_id : p \in {q \in DOMAIN g.persons : q.name = call.actor_name}}
        Titled(g) == {m.movie_id : m \in {q \in DOMAIN g.movies : q.title = call.movie_title}}
        Target(g) == {e \in DOMAIN g.edges :
                         /\ e.type = "ACTED_IN"
                         /\ e.person_id \in Named(g)
                         /\ e.movie_id \in Titled(g)}
        Between(g, e) == {f \in DOMAIN g.edges :
                             /\ f.type = e.type
                             /\ f.person_id = e.person_id
                             /\ f.movie_id = e.movie_id}
    IN /\ (call.op = "unlink_actor_from_movie" /\ call.ret = TRUE) => Target(db) = {}
       /\ (call.op = "link_actor_to_movie" /\ call.store_ok /\ Target(pre) = {}) =>
              unlink_query(db, call.actor_name, call.movie_title) = pre
       /\ call.op \notin {"unlink_actor_from_movie", "none"} =>
              /\ \A e \in DOMAIN pre.edges :
                    BagCount(db.edges, Between(db, e)) >= BagCount(pre.edges, Between(pre, e))
              /\ \A r \in DOMAIN pre.rels :
                    r \in DOMAIN db.rels /\ db.rels[r] >= pre.rels[r]

(* An unlink call that removed the edges of two Persons of the same name. *)
C12_Witness ==
    /\ call.op = "unlink_actor_from_movie" /\ call.ret = TRUE
    /\ \E e1, e2 \in DOMAIN pre.edges :
          /\ e1.type = "ACTED_IN" /\ e2.type = "ACTED_IN"
          /\ e1.person_id # e2.person_id
          /\ e1 \notin DOMAIN db.edges /\ e2 \notin DOMAIN db.edges
          /\ \A e \in {e1, e2} :
                \E p \in DOMAIN pre.persons :
                   p.person_id = e.person_id /\ p.name = call.actor_name

(* C17: link and unlink leave every node and every entity relationship as  *)
(* it was, and every edge that is not an ACTED_IN edge from a Person with  *)
(* the given name to a Movie with the given title; link removes or changes *)
(* no edge at all, so an edge credits ingestion made keeps its character.  *)
C17_EditFrame ==
    call.op \in {"link_actor_to_movie", "unlink_actor_from_movie"} =>
        LET ps == {p.person_id : p \in {q \in DOMAIN pre.persons : q.name = call.actor_name}}
            ms == {m.movie_id : m \in {q \in DOMAIN pre.movies : q.title = call.movie_title}}
            Other(g) == {e \in DOMAIN g.edges :
                            ~(e.type = "ACTED_IN" /\ e.person_id \in ps /\ e.movie_id \in ms)}
        IN /\ db.movies = pre.movies
           /\ db.persons = pre.persons
           /\ db.entities = pre.entities
           /\ db.rels = pre.rels
           /\ KeepBag(db.edges, Other(db)) = KeepBag(pre.edges, Other(pre))
           /\ call.op = "link_actor_to_movie" =>
                 \A e \in DOMAIN pre.edges :
                    e \in DOMAIN db.edges /\ db.edges[e] = pre.edges[e]

(* A link call that made an edge for one Person of the name while another  *)
(* Person of that name already had one, with a character, from credits.    *)
C17_Witness ==
    /\ call.op = "link_actor_to_movie" /\ call.store_ok
    /\ db # pre
    /\ \E e \in DOMAIN pre.edges :
          /\ e.type = "ACTED_IN" /\ e.character # NULL
          /\ e \in DOMAIN db.edges
          /\ \E p \in DOMAIN pre.persons :
                p.person_id = e.person_id /\ p.name = call.actor_name
          /\ \E m \in DOMAIN pre.movies :
                m.movie_id = e.movie_id /\ m.title = call.movie_title

(***************************************************************************)
(* Properties of malformed cells (specification Spec).                     *)
(***************************************************************************)

(* C13: an add_movies call on a reachable store completes whatever the     *)
(* cells of the batch were: it does not raise, every row of the batch has  *)
(* its Movie node, a node the call created from a row whose release_date   *)
(* did not parse has no release_date, and no entity without its key and no *)
(* relationship to one comes from a wrongly shaped cell.                   *)
C13_MalformedCellNeverAborts ==
    (call.op = "add_movies" /\ call.available) =>
        /\ ~call.raised
        /\ \A i \in DOMAIN call.rows :
              /\ \E m \in DOMAIN db.movies : m.movie_id = call.rows[i].id
              /\ (/\ \A m \in DOMAIN pre.movies : m.movie_id # call.rows[i].id
                  /\ \A j \in 1..(i - 1) : call.rows[j].id # call.rows[i].id
                  /\ call.rows[i].release_date = NULL) =>
                     \A m \in DOMAIN db.movies :
                        m.movie_id = call.rows[i].id => m.release_date = NULL
        /\ \A x \in DOMAIN db.entities : x.name # NULL
        /\ \A r \in DOMAIN db.rels : r.target.name # NULL

(***************************************************************************)
(* Properties of the parsers (specification SpecParse).                    *)
(***************************************************************************)

(* C14: whatever the cell, parse_dict, parse_list, parse_date and          *)
(* parse_json return (a value or None): no exception leaves them.          *)
C14_ParsersTotal ==
    call.op \in {"parse_dict", "parse_list", "parse_date", "parse_json"} => ~call.raised

(***************************************************************************)
(* Properties of a failing store call in a run (specification SpecIngest). *)
(***************************************************************************)

(* C15: when the store call for chunk k raises, the run ends raised: k is  *)
(* the last chunk read, reported and handed on; the totals count chunks    *)
(* 1..k-1 only; the graph is the one the run began on with chunks 1..k-1   *)
(* applied; and the run takes no further step (no retry, no later chunk).  *)
C15_StoreFailureAbortsRun ==
    /\ [](/\ (call.op \in {"add_movies", "add_credits"} /\ call.raised) =>
                 run.pc = "raised"
          /\ run.pc = "raised" =>
                 LET k == run.chunks_read
                     RECURSIVE Applied(_, _)
                     Applied(g, b) ==
                         IF b > k - 1
                         THEN g
                         ELSE Applied(StoreCall(run.kind, g,
                                                ToRecords(run.kind, run.handed[b])).db,
                                      b + 1)
                     RECURSIVE Rows(_)
                     Rows(b) == IF b = 0 THEN 0 ELSE Len(run.handed[b]) + Rows(b - 1)
                 IN /\ Len(run.printed) = k
                    /\ Len(run.handed) = k
                    /\ run.total_processed = Rows(k - 1)
                    /\ db = Applied(run.start, 1))
    /\ [][(run.pc = "raised" /\ run'.pc = "raised") => (run' = run /\ db' = db)]_vars

(* The store call for a chunk after the first raised, with chunks left to  *)
(* read, after the earlier chunks had changed the graph.                   *)
C15_Witness ==
    /\ run.pc = "raised"
    /\ run.chunks_read >= 2
    /\ run.chunks_read < run.total_chunks
    /\ db # run.start
    /\ call.raised

(***************************************************************************)
(* Properties of the connection (specification SpecConn).                  *)
(***************************************************************************)

(* C16: once the catalog is done with (its with-block was left, normally   *)
(* or by an exception, or its construction failed) no driver it opened is  *)
(* still open; a session is open only while its query runs; and no session *)
(* is open on a closed driver.                                             *)
C16_ConnectionScoped ==
    /\ conn.pc \in {"done", "failed"} => conn.driver # "open"
    /\ conn.pc # "query" => conn.session = "none"
    /\ conn.driver = "closed" => conn.session = "none"

====
